---- MODULE Spec2Model ----
(***************************************************************************)
(* ChunksToHermesBytecodePlugin: after the bundler has emitted its assets, *)
(* every asset matching the configured rule is compiled to Hermes bytecode *)
(* in place and its source map is composed with the compiler's map.        *)
(*                                                                         *)
(* A file name is a sequence of tokens (<<"x", ".bundle">> is x.bundle),   *)
(* so that appending ".map" and testing a suffix are computed.  A path is  *)
(* a sequence of file names, taken from one base directory; the empty      *)
(* path is that directory, and also stands for an option that is not set   *)
(* (undefined and '' are both falsy in the source).                        *)
(***************************************************************************)
EXTENDS FiniteSets, Integers, Sequences, TLC

VARIABLES config, assets, fs, fs0, phase, aggregate, pc,
          bundleOutputPath, sourcemapOutputPath, packagerMapPath,
          useSourceMaps, hermesAsset, ops

vars == <<config, assets, fs, fs0, phase, aggregate, pc,
          bundleOutputPath, sourcemapOutputPath, packagerMapPath,
          useSourceMaps, hermesAsset, ops>>

\* ------------------------------------------------------------------ bounds

\* Largest number of assets the compilation emits in one run.
MaxAssets == 2

\* Largest number of files left at packager-map paths by earlier runs.
MaxStale == 1

\* ------------------------------------------------------------------- paths

NoPath == <<>>

\* path.dirname
dirname(p) == IF Len(p) <= 1 THEN NoPath ELSE SubSeq(p, 1, Len(p) - 1)

\* path.basename; the base name of '' is ''
basename(p) == IF p = <<>> THEN <<>> ELSE p[Len(p)]

\* path normalisation done by path.join: "." is dropped, ".." removes the
\* segment before it.
RECURSIVE normalize(_)
normalize(p) ==
    IF p = <<>> THEN <<>>
    ELSE LET q == normalize(SubSeq(p, 1, Len(p) - 1))
             s == p[Len(p)]
         IN  IF s = <<".">> THEN q
             ELSE IF s = <<"..">> /\ q # <<>> /\ q[Len(q)] # <<"..">>
                  THEN SubSeq(q, 1, Len(q) - 1)
                  ELSE Append(q, s)

\* path.join
join(a, b) == normalize(a \o b)

\* `${file}${suffix}` on a file name
withSuffix(file, suffix) == Append(file, suffix)

\* `${p}${suffix}` on a path: the suffix lands on the last segment
pathWithSuffix(p, suffix) ==
    SubSeq(p, 1, Len(p) - 1) \o <<withSuffix(basename(p), suffix)>>

\* ----------------------------------------------------------- configuration

IndexBundle == << <<"index", ".bundle">> >>

Platforms == {"ios", "android"}

BundleFilenames == { NoPath, << <<"out">>, <<"main", ".jsbundle">> >> }

SourceMapFilenames == { NoPath, << <<"maps">>, <<"main", ".jsbundle", ".map">> >> }

AssetsPaths == { NoPath, << <<"res">> >> }

\* config.test: the rule of the documented example, or no rule at all
Rules == {"bundleSuffix", "noRule"}

AssetNames ==
    { IndexBundle,
      << <<"x", ".bundle">> >>,
      << <<"a">>, <<"x", ".bundle">> >>,
      << <<"x", ".bundle", ".map">> >> }

Configs ==
    [ enabled : BOOLEAN, platform : Platforms, bundleFilename : BundleFilenames,
      sourceMapFilename : SourceMapFilenames, assetsPath : AssetsPaths,
      test : Rules ]

\* The filter lets every asset through.
shouldUseHermesByteCodeAll(name) == TRUE

\* ModuleFilenameHelpers.matchObject(this.config, filename) with only `test`
\* set: /\.(js)?bundle$/ looks at the end of the name; no rule matches all.
shouldUseHermesByteCode(name) ==
    \/ config.test = "noRule"
    \/ LET file == basename(name)
       IN  file[Len(file)] \in {".bundle", ".jsbundle"}

\* compilation.getPath(asset.name): emitted names hold no template
\* placeholder, so nothing is substituted.
getPath(name) == name

bundleOutputDir == dirname(config.bundleFilename)

assetsOutputDir ==
    IF config.assetsPath # NoPath THEN config.assetsPath ELSE bundleOutputDir

sourcemapOutputDir ==
    IF config.sourceMapFilename # NoPath
    THEN dirname(config.sourceMapFilename)
    ELSE bundleOutputDir

\* The main bundle is looked for under the name of the bundle output file.
isMainBundleByFilename(name) ==
    config.bundleFilename # NoPath /\ name = <<basename(config.bundleFilename)>>

\* `asset.name === 'index.bundle'`, line 163
isMainBundle(name) == name = IndexBundle

ResolveBundleOutputPath(name) ==
    IF isMainBundle(name)
    THEN config.bundleFilename
    ELSE join(IF config.platform = "ios" THEN assetsOutputDir ELSE bundleOutputDir,
              getPath(name))

\* Every map is put in the source-map directory.
ResolveSourcemapOutputPathJoined(name, bundlePath) ==
    join(sourcemapOutputDir, <<withSuffix(basename(bundlePath), ".map")>>)

ResolveSourcemapOutputPath(name, bundlePath) ==
    IF ~isMainBundle(name) /\ config.platform = "ios"
    THEN pathWithSuffix(bundlePath, ".map")
    ELSE join(sourcemapOutputDir, <<withSuffix(basename(bundlePath), ".map")>>)

\* The packager map is put next to the bundle.
ResolvePackagerMapPathBeside(bundlePath) ==
    pathWithSuffix(pathWithSuffix(bundlePath, ".packager"), ".map")

ResolvePackagerMapPath(bundlePath) ==
    join(sourcemapOutputDir,
         <<withSuffix(withSuffix(basename(bundlePath), ".packager"), ".map")>>)

\* --------------------------------------------------------------- the files

\* What a file holds.
Original(p) == [kind |-> "original", of |-> p]
Bytecode(c) == [kind |-> "bytecode", of |-> c]
CompilerMap(c) == [kind |-> "compilerMap", of |-> c]
Composed(packager, compiler) ==
    [kind |-> "composed", packager |-> packager, compiler |-> compiler]
NoMap == [kind |-> "none"]

\* fs.access succeeded
fileExists(p) == p \in DOMAIN fs

WriteFile(f, p, c) == [q \in DOMAIN f \cup {p} |-> IF q = p THEN c ELSE f[q]]

RemoveFile(f, p) == [q \in DOMAIN f \ {p} |-> f[q]]

\* fs.rename(from, to) on an existing file
RenameFile(f, from, to) == WriteFile(RemoveFile(f, from), to, f[from])

\* ------------------------------------------------------------------- state

Matching == {a \in assets : shouldUseHermesByteCode(a)}

Settled == {"skipped", "done", "failed"}

\* A join that waits for every promise and drops the rejections.
PromiseAllSettled(agg, p) ==
    IF agg # "pending" THEN agg
    ELSE IF \A a \in {b \in assets : shouldUseHermesByteCode(b)} :
               p[a] \in {"skipped", "done", "failed"}
    THEN "fulfilled"
    ELSE "pending"

\* Promise.all over the per-asset promises: rejected with the first
\* rejection, fulfilled when all are fulfilled.
PromiseAll(agg, p) ==
    IF agg # "pending" THEN agg
    ELSE IF \E a \in Matching : p[a] = "failed" THEN "rejected"
    ELSE IF \A a \in Matching : p[a] \in {"skipped", "done"} THEN "fulfilled"
    ELSE "pending"

Log(a, entry) == [ops EXCEPT ![a] = Append(@, entry)]

\* The paths an emitted asset resolves to.
BundlePathOf(name) == ResolveBundleOutputPath(name)
MapPathOf(name) == ResolveSourcemapOutputPath(name, BundlePathOf(name))
PackagerPathOf(name) == ResolvePackagerMapPath(BundlePathOf(name))

\* Files that may lie on disk when the run starts: bundles and bundler maps
\* of the emitted assets, and packager maps an earlier run left behind.
EmittedPaths ==
    IF config.bundleFilename = NoPath THEN {getPath(a) : a \in assets}
    ELSE UNION {{BundlePathOf(a), MapPathOf(a)} : a \in assets}

StalePaths ==
    IF config.bundleFilename = NoPath THEN {}
    ELSE {PackagerPathOf(a) : a \in assets}

Init ==
    /\ config \in Configs
    /\ assets \in {s \in SUBSET AssetNames : Cardinality(s) <= MaxAssets}
    /\ \E present \in SUBSET EmittedPaths, stale \in SUBSET StalePaths :
            /\ Cardinality(stale) <= MaxStale
            /\ fs = [p \in present \cup stale |-> Original(p)]
    /\ fs0 = fs
    /\ phase = "constructed"
    /\ aggregate = "none"
    /\ pc = [a \in assets |-> "idle"]
    /\ bundleOutputPath = [a \in assets |-> NoPath]
    /\ sourcemapOutputPath = [a \in assets |-> NoPath]
    /\ packagerMapPath = [a \in assets |-> NoPath]
    /\ useSourceMaps = [a \in assets |-> FALSE]
    /\ hermesAsset = [a \in assets |-> NoMap]
    /\ ops = [a \in assets |-> <<>>]

\* ----------------------------------------------------------------- actions

\* The bundle output path is looked at before the enabled flag.
ApplyOutcomePathFirst(c) ==
    IF c.bundleFilename = NoPath THEN "threw"
    ELSE IF ~c.enabled THEN "disabled"
    ELSE "tapped"

\* The missing bundle output path is logged and not thrown.
ApplyOutcomeNoThrow(c) == IF ~c.enabled THEN "disabled" ELSE "tapped"

\* The two guards of apply, lines 97-121: return when disabled, throw
\* without a bundle output path; otherwise afterEmit is tapped.
ApplyOutcome(c) ==
    IF ~c.enabled THEN "disabled"
    ELSE IF c.bundleFilename = NoPath THEN "threw"
    ELSE "tapped"

\* The transform is started right after the bundle check.
AfterBundleCheckTransform(exists) == IF exists THEN "transform" ELSE "skipped"

\* The result of the bundle check is not looked at.
AfterBundleCheckIgnored(exists) == "useSourceMaps"

\* The missing bundle is thrown and not skipped.
AfterBundleCheckThrow(exists) == IF exists THEN "useSourceMaps" ELSE "failed"

\* `if (!bundleExists) return`, lines 173-178
AfterBundleCheck(exists) == IF exists THEN "useSourceMaps" ELSE "skipped"

\* The rename is not guarded by useSourceMaps.
AfterSourceMapCheckRename(exists) == "rename"

\* The branch without source maps returns.
AfterSourceMapCheckReturn(exists) == IF exists THEN "rename" ELSE "done"

\* `if (useSourceMaps) rename else log`, then the transform, lines 194-202
AfterSourceMapCheck(exists) == IF exists THEN "rename" ELSE "transform"

\* A failed call is made again.
AfterFailureRetry(p, a) == p

\* A throw in one asset's function stops the functions of the others.
AfterFailureAbortAll(p, a) ==
    [b \in DOMAIN p |->
        IF b = a THEN "failed"
        ELSE IF p[b] \in {"idle", "skipped", "done", "failed"} THEN p[b]
        ELSE "aborted"]

\* A throw in the async function of asset a rejects the promise of a and
\* nothing else, lines 145-218.
AfterFailure(p, a) == [p EXCEPT ![a] = "failed"]

\* The source map is put back when the compiler fails.
AfterTransformFailureRollback(f, a) ==
    IF useSourceMaps[a] /\ packagerMapPath[a] \in DOMAIN f
    THEN [q \in (DOMAIN f \ {packagerMapPath[a]}) \cup {sourcemapOutputPath[a]} |->
             IF q = sourcemapOutputPath[a] THEN f[packagerMapPath[a]] ELSE f[q]]
    ELSE f

\* The files after a throw of transformBundleToHermesBytecode: the call
\* is in no try block, lines 202-206, so nothing is undone.
AfterTransformFailure(f, a) == f

\* apply(compiler), lines 94-223.
Apply ==
    /\ phase = "constructed"
    /\ phase' = ApplyOutcome(config)
    /\ UNCHANGED <<config, assets, fs, fs0, aggregate, pc, bundleOutputPath,
                   sourcemapOutputPath, packagerMapPath, useSourceMaps,
                   hermesAsset, ops>>

\* The afterEmit callback up to the first await of every asset's function:
\* each one resolves its bundle path and calls fileExists on it.
AfterEmit ==
    /\ phase = "tapped"
    /\ phase' = "emitted"
    /\ pc' = [a \in assets |-> IF a \in Matching THEN "bundleExists" ELSE "idle"]
    /\ bundleOutputPath' =
          [a \in assets |-> IF a \in Matching THEN ResolveBundleOutputPath(a)
                            ELSE NoPath]
    /\ aggregate' = PromiseAll("pending", pc')
    /\ UNCHANGED <<config, assets, fs, fs0, sourcemapOutputPath,
                   packagerMapPath, useSourceMaps, hermesAsset, ops>>

\* `await fileExists(bundleOutputPath)` returns, lines 172-193.
BundleExists(a) ==
    /\ pc[a] = "bundleExists"
    /\ LET exists == fileExists(bundleOutputPath[a])
       IN  /\ ops' = Log(a, [op |-> "fileExists", path |-> bundleOutputPath[a],
                             result |-> exists])
           /\ pc' = [pc EXCEPT ![a] = AfterBundleCheck(exists)]
           /\ IF exists
              THEN /\ sourcemapOutputPath' =
                         [sourcemapOutputPath EXCEPT
                            ![a] = ResolveSourcemapOutputPath(a, bundleOutputPath[a])]
                   /\ packagerMapPath' =
                         [packagerMapPath EXCEPT
                            ![a] = ResolvePackagerMapPath(bundleOutputPath[a])]
              ELSE UNCHANGED <<sourcemapOutputPath, packagerMapPath>>
    /\ aggregate' = PromiseAll(aggregate, pc')
    /\ UNCHANGED <<config, assets, fs, fs0, phase, bundleOutputPath,
                   useSourceMaps, hermesAsset>>

\* `await fileExists(sourcemapOutputPath)` returns, lines 193-206.
SourceMapExists(a) ==
    /\ pc[a] = "useSourceMaps"
    /\ LET exists == fileExists(sourcemapOutputPath[a])
       IN  /\ ops' = Log(a, [op |-> "fileExists", path |-> sourcemapOutputPath[a],
                             result |-> exists])
           /\ useSourceMaps' = [useSourceMaps EXCEPT ![a] = exists]
           /\ pc' = [pc EXCEPT ![a] = AfterSourceMapCheck(exists)]
    /\ UNCHANGED <<config, assets, fs, fs0, phase, aggregate, bundleOutputPath,
                   sourcemapOutputPath, packagerMapPath, hermesAsset>>

\* `await fs.rename(sourcemapOutputPath, packagerMapPath)`, line 195: it
\* rejects when the source is gone.
Rename(a) ==
    /\ pc[a] = "rename"
    /\ ops' = Log(a, [op |-> "rename", path |-> sourcemapOutputPath[a],
                      result |-> fileExists(sourcemapOutputPath[a])])
    /\ IF fileExists(sourcemapOutputPath[a])
       THEN /\ fs' = RenameFile(fs, sourcemapOutputPath[a], packagerMapPath[a])
            /\ pc' = [pc EXCEPT ![a] = "transform"]
       ELSE /\ fs' = fs
            /\ pc' = AfterFailure(pc, a)
    /\ aggregate' = PromiseAll(aggregate, pc')
    /\ UNCHANGED <<config, assets, fs0, phase, bundleOutputPath,
                   sourcemapOutputPath, packagerMapPath, useSourceMaps,
                   hermesAsset>>

\* The arguments of the transformBundleToHermesBytecode call, lines 202-206.
TransformArgs(a) ==
    [filePath |-> bundleOutputPath[a], useSourceMaps |-> useSourceMaps[a]]

\* The compose call is left out.
NeedsComposeNever(a) == FALSE

\* `if (useSourceMaps)`, line 210
NeedsCompose(a) == useSourceMaps[a]

\* The arguments of the composeSourceMaps call, lines 211-216.
ComposeArgs(a) ==
    [packagerMapPath |-> packagerMapPath[a], compilerMap |-> hermesAsset[a],
     outputFile |-> sourcemapOutputPath[a]]

\* transformBundleToHermesBytecode: the bytecode ends up at filePath, and a
\* compiler map is produced iff one was requested.
HermesBundle(f, args) == WriteFile(f, args.filePath, Bytecode(f[args.filePath]))

HermesSourceMap(f, args) ==
    IF args.useSourceMaps THEN CompilerMap(f[args.filePath]) ELSE NoMap

\* composeSourceMaps: the composition is written to outputFile and the
\* packager map is consumed.
ComposedFiles(f, args) ==
    RemoveFile(WriteFile(f, args.outputFile,
                         Composed(f[args.packagerMapPath], args.compilerMap)),
               args.packagerMapPath)

\* `await transformBundleToHermesBytecode(...)` returns or throws, lines
\* 202-217; the compiler fails on its own account (ok = FALSE) or because
\* its input is gone.
Transform(a) ==
    /\ pc[a] = "transform"
    /\ \E ok \in BOOLEAN :
          LET args == TransformArgs(a)
              succeeded == ok /\ args.filePath \in DOMAIN fs
          IN  /\ ops' = Log(a, [op |-> "transform", path |-> args.filePath,
                                maps |-> args.useSourceMaps,
                                result |-> succeeded])
              /\ IF succeeded
                 THEN /\ fs' = HermesBundle(fs, args)
                      /\ hermesAsset' = [hermesAsset EXCEPT
                                           ![a] = HermesSourceMap(fs, args)]
                      /\ pc' = [pc EXCEPT ![a] = IF NeedsCompose(a) THEN "compose"
                                                 ELSE "done"]
                 ELSE /\ fs' = AfterTransformFailure(fs, a)
                      /\ hermesAsset' = hermesAsset
                      /\ pc' = AfterFailure(pc, a)
    /\ aggregate' = PromiseAll(aggregate, pc')
    /\ UNCHANGED <<config, assets, fs0, phase, bundleOutputPath,
                   sourcemapOutputPath, packagerMapPath, useSourceMaps>>

\* `await composeSourceMaps(...)` returns or throws, lines 211-218; it fails
\* on a malformed map (ok = FALSE) or when an input is missing.
Compose(a) ==
    /\ pc[a] = "compose"
    /\ \E ok \in BOOLEAN :
          LET args == ComposeArgs(a)
              succeeded == /\ ok
                           /\ args.packagerMapPath \in DOMAIN fs
                           /\ args.compilerMap # NoMap
          IN  /\ ops' = Log(a, [op |-> "compose", path |-> args.outputFile,
                                packager |-> args.packagerMapPath,
                                result |-> succeeded])
              /\ IF succeeded
                 THEN /\ fs' = ComposedFiles(fs, args)
                      /\ pc' = [pc EXCEPT ![a] = "done"]
                 ELSE /\ fs' = fs
                      /\ pc' = AfterFailure(pc, a)
    /\ aggregate' = PromiseAll(aggregate, pc')
    /\ UNCHANGED <<config, assets, fs0, phase, bundleOutputPath,
                   sourcemapOutputPath, packagerMapPath, useSourceMaps,
                   hermesAsset>>

\* One step of the pipeline of asset a.
PipelineStep(a) ==
    \/ BundleExists(a)
    \/ SourceMapExists(a)
    \/ Rename(a)
    \/ Transform(a)
    \/ Compose(a)

Next ==
    \/ Apply
    \/ AfterEmit
    \/ \E a \in assets : BundleExists(a)
    \/ \E a \in assets : SourceMapExists(a)
    \/ \E a \in assets : Rename(a)
    \/ \E a \in assets : Transform(a)
    \/ \E a \in assets : Compose(a)

Spec == Init /\ [][Next]_vars

\* Every awaited call returns: a pipeline that can take a step takes it.
Fairness == \A a \in AssetNames : WF_vars(a \in assets /\ PipelineStep(a))

\* The runs in which afterEmit is tapped, on a disk without packager maps
\* of earlier runs (no step waits for a packager-map path to be free).
FairInit ==
    /\ Init
    /\ config.enabled
    /\ config.bundleFilename # NoPath
    /\ DOMAIN fs \subseteq EmittedPaths

FairSpec == FairInit /\ [][Next]_vars /\ Fairness

\* ------------------------------------------------------------------ claims

\* What the pipeline of asset a has done so far.
Did(a, op) == \E i \in 1..Len(ops[a]) : ops[a][i].op = op /\ ops[a][i].result

\* The bundle check of asset a has returned false.
BundleMissing(a) ==
    /\ ops[a] # <<>>
    /\ ops[a][1] = [op |-> "fileExists", path |-> bundleOutputPath[a],
                    result |-> FALSE]

\* The source map of a is renamed and not (yet) composed.
RenamedNotComposed(a) == Did(a, "rename") /\ ~Did(a, "compose")

\* The resolved paths of the other matching assets' maps.
MapPathsBeside(a) ==
    UNION {{sourcemapOutputPath[b], packagerMapPath[b]} : b \in Matching \ {a}}

PackagerPaths == {PackagerPathOf(a) : a \in Matching}

\* C1 as stated: after a run without error, every matching asset's bundle
\* path holds bytecode.
C1_Original ==
    aggregate = "fulfilled" =>
        \A a \in Matching :
            /\ bundleOutputPath[a] \in DOMAIN fs
            /\ fs[bundleOutputPath[a]].kind = "bytecode"

\* C1 amended: after a run without error, every matching asset whose bundle
\* was found, and whose bundle path is not the source-map or packager-map
\* path of another matching asset, has bytecode at its bundle path.
C1_Theorem ==
    aggregate = "fulfilled" =>
        \A a \in Matching :
            (pc[a] = "done" /\ bundleOutputPath[a] \notin MapPathsBeside(a)) =>
                /\ bundleOutputPath[a] \in DOMAIN fs
                /\ fs[bundleOutputPath[a]].kind = "bytecode"

C1_Witness ==
    /\ aggregate = "fulfilled"
    /\ \E a \in Matching :
          /\ pc[a] = "done"
          /\ bundleOutputPath[a] \notin MapPathsBeside(a)
          /\ fs[bundleOutputPath[a]] = Bytecode(fs0[bundleOutputPath[a]])
    /\ \E a \in Matching : pc[a] = "skipped"

\* C2 as stated: once a compose has succeeded, and at the end of a
\* successful run, no file is at any asset's packager-map path.
C2_Original ==
    (aggregate = "fulfilled" \/ \E a \in Matching : Did(a, "compose")) =>
        \A p \in PackagerPaths : p \notin DOMAIN fs

\* C2 amended: a file that the run put at a packager-map path is there only
\* while an asset with that packager-map path has renamed its source map and
\* not composed; at the end of a successful run a packager-map path holds
\* nothing, or the file it held before the run.
C2_Theorem ==
    \A p \in PackagerPaths :
        p \in DOMAIN fs =>
            \/ /\ p \in DOMAIN fs0
               /\ fs[p] = fs0[p]
               /\ \A b \in Matching : packagerMapPath[b] = p => ~Did(b, "rename")
            \/ /\ aggregate # "fulfilled"
               /\ \E b \in Matching : packagerMapPath[b] = p /\ RenamedNotComposed(b)

C2_Witness ==
    /\ aggregate = "fulfilled"
    /\ \E a \in Matching :
          /\ Did(a, "rename") /\ Did(a, "compose")
          /\ packagerMapPath[a] \notin DOMAIN fs
          /\ sourcemapOutputPath[a] \in DOMAIN fs

\* C3 as stated: the aggregate settles only when every matching asset's
\* pipeline has settled.
C3_Claim ==
    aggregate \in {"fulfilled", "rejected"} =>
        \A a \in Matching : pc[a] \in Settled

\* C4: when a matching asset's pipeline has failed, the aggregate is
\* rejected; it is never fulfilled with a failed pipeline.
C4_Theorem ==
    \A a \in Matching : pc[a] = "failed" => aggregate = "rejected"

C4_Witness ==
    /\ aggregate = "rejected"
    /\ \E a \in Matching : pc[a] = "failed" /\ Did(a, "transform")
    /\ \E a \in Matching : pc[a] = "done"

\* C5: an asset whose bundle is missing when checked does nothing but that
\* check, does not fail, does not reject the aggregate, and leaves every
\* other unsettled pipeline able to take its next step.
C5_Theorem ==
    \A a \in Matching :
        BundleMissing(a) =>
            /\ pc[a] = "skipped"
            /\ Len(ops[a]) = 1
            /\ aggregate = "rejected" => \E b \in Matching \ {a} : pc[b] = "failed"
            /\ \A b \in Matching \ {a} : pc[b] \notin Settled => ENABLED PipelineStep(b)

C5_Witness ==
    \E a, b \in Matching :
        /\ BundleMissing(a)
        /\ pc[b] = "done"
        /\ Did(b, "compose")
        /\ aggregate = "fulfilled"

\* C6 as stated: two distinct matching assets share none of their bundle,
\* source-map and packager-map paths.
C6_Claim ==
    config.bundleFilename # NoPath =>
        \A a, b \in Matching :
            a # b =>
                {BundlePathOf(a), MapPathOf(a), PackagerPathOf(a)}
                \cap {BundlePathOf(b), MapPathOf(b), PackagerPathOf(b)} = {}

\* C7: enabled and without a bundle output path, apply throws and nothing
\* is ever checked, renamed, transformed or composed.
C7_Theorem ==
    (config.enabled /\ config.bundleFilename = NoPath /\ phase # "constructed") =>
        /\ phase = "threw"
        /\ aggregate = "none"
        /\ \A a \in assets : pc[a] = "idle" /\ ops[a] = <<>>
        /\ fs = fs0

C7_Witness == phase = "threw" /\ Matching # {} /\ fs # <<>>

\* C8: disabled, apply returns without an error, with or without a bundle
\* output path, no asset is processed and no file changes.
C8_Theorem ==
    (~config.enabled /\ phase # "constructed") =>
        /\ phase = "disabled"
        /\ aggregate = "none"
        /\ \A a \in assets : pc[a] = "idle" /\ ops[a] = <<>>
        /\ fs = fs0

C8_Witness ==
    /\ phase = "disabled"
    /\ config.bundleFilename = NoPath
    /\ Matching # {}
    /\ fs # <<>>

\* C9: the asset named index.bundle gets the configured bundle output path
\* on every platform; any other asset gets its name under the assets
\* directory on ios and under the bundle's directory elsewhere.
C9_Theorem ==
    \A a \in Matching :
        pc[a] # "idle" =>
            bundleOutputPath[a] =
                IF a = << <<"index", ".bundle">> >> THEN config.bundleFilename
                ELSE IF config.platform = "ios" /\ config.assetsPath # NoPath
                     THEN config.assetsPath \o a
                     ELSE SubSeq(config.bundleFilename, 1,
                                 Len(config.bundleFilename) - 1) \o a

C9_Witness ==
    /\ config.platform = "android"
    /\ IndexBundle \in Matching
    /\ pc[IndexBundle] = "done"
    /\ bundleOutputPath[IndexBundle] = << <<"out">>, <<"main", ".jsbundle">> >>
    /\ \E a \in Matching : a # IndexBundle /\ pc[a] = "done"

CompilerFailed(a) ==
    /\ pc[a] = "failed"
    /\ ops[a][Len(ops[a])].op = "transform"

Started(a) == pc[a] \notin {"idle", "skipped", "done", "failed"}

\* C11: when the compiler has failed for one asset, every other matching
\* asset whose pipeline is under way still reaches its own completion, skip
\* or failure.
C11_Theorem ==
    (\E a, b \in Matching : a # b /\ CompilerFailed(a) /\ Started(b))
        ~> (\A b \in Matching : pc[b] \in Settled)

C11_Witness ==
    \E a, b \in Matching :
        /\ a # b
        /\ CompilerFailed(a)
        /\ pc[b] = "done"
        /\ Did(b, "rename") /\ Did(b, "transform") /\ Did(b, "compose")
        /\ Len(ops[b]) > Len(ops[a])

\* The final map of asset a is the composition of the bundler map that was
\* at its source-map path before the run with the compiler map of its own
\* bundle.
OwnComposedMap(a) ==
    /\ sourcemapOutputPath[a] \in DOMAIN fs
    /\ sourcemapOutputPath[a] \in DOMAIN fs0
    /\ bundleOutputPath[a] \in DOMAIN fs0
    /\ fs[sourcemapOutputPath[a]] =
          Composed(fs0[sourcemapOutputPath[a]],
                   CompilerMap(fs0[bundleOutputPath[a]]))

\* C12 as stated: in every interleaving, the step that completes an asset
\* with source maps leaves at its final source-map path the composition of
\* its own bundler map with its own compiler map.
C12_Claim ==
    [][\A a \in Matching :
          (pc[a] = "compose" /\ pc'[a] = "done") => OwnComposedMap(a)']_vars

\* The pipeline of asset a has called op, whatever the outcome.
Called(a, op) == \E i \in 1..Len(ops[a]) : ops[a][i].op = op

\* The source-map check of asset a has returned / has returned true.
MapChecked(a) == Len(ops[a]) >= 2
MapFound(a) == MapChecked(a) /\ ops[a][2].result

\* The resolved paths of the matching assets other than a.
PathsBeside(a) ==
    UNION {{BundlePathOf(b), MapPathOf(b), PackagerPathOf(b)} : b \in Matching \ {a}}

\* No other matching asset resolves to the map paths of a.
MapsUnshared(a) ==
    {sourcemapOutputPath[a], packagerMapPath[a]} \cap PathsBeside(a) = {}

\* C13: past the rename point the rename was called iff the source-map
\* check found a map; every transform call asks for a compiler map iff the
\* check found one; past the compose point of a successful transform the
\* compose was called, on the packager map and to the final map path, iff
\* the check found one; without a map there is no rename, no compose and no
\* new file at the source-map or packager-map path.
C13_Theorem ==
    \A a \in Matching :
        MapChecked(a) =>
            /\ ops[a][2].op = "fileExists"
            /\ ops[a][2].path = sourcemapOutputPath[a]
            /\ useSourceMaps[a] = MapFound(a)
            /\ pc[a] # "rename" => (Called(a, "rename") <=> MapFound(a))
            /\ \A i \in 1..Len(ops[a]) :
                  /\ ops[a][i].op = "rename" => ops[a][i].path = sourcemapOutputPath[a]
                  /\ ops[a][i].op = "transform" =>
                        /\ ops[a][i].maps = MapFound(a)
                        /\ ops[a][i].path = bundleOutputPath[a]
                  /\ ops[a][i].op = "compose" =>
                        /\ ops[a][i].path = sourcemapOutputPath[a]
                        /\ ops[a][i].packager = packagerMapPath[a]
            /\ (Did(a, "transform") /\ pc[a] # "compose") =>
                  (Called(a, "compose") <=> MapFound(a))
            /\ ~MapFound(a) =>
                  /\ ~Called(a, "rename") /\ ~Called(a, "compose")
                  /\ MapsUnshared(a) =>
                        /\ sourcemapOutputPath[a] \notin DOMAIN fs
                        /\ packagerMapPath[a] \in DOMAIN fs
                              <=> packagerMapPath[a] \in DOMAIN fs0
                        /\ packagerMapPath[a] \in DOMAIN fs =>
                              fs[packagerMapPath[a]] = fs0[packagerMapPath[a]]

C13_Witness ==
    \E a, b \in Matching :
        /\ pc[a] = "done" /\ MapFound(a) /\ Did(a, "rename") /\ Did(a, "compose")
        /\ pc[b] = "done" /\ MapChecked(b) /\ ~MapFound(b) /\ MapsUnshared(b)
        /\ packagerMapPath[b] \in DOMAIN fs

\* The awaited calls of one pipeline, in the order of the source.
StepOrder(a) ==
    IF MapFound(a)
    THEN <<"fileExists", "fileExists", "rename", "transform", "compose">>
    ELSE <<"fileExists", "fileExists", "transform">>

\* The call the pipeline of a is waiting for, as the pc names it.
PendingCall(a) ==
    CASE pc[a] \in {"bundleExists", "useSourceMaps"} -> "fileExists"
      [] pc[a] \in {"rename", "transform", "compose"} -> pc[a]
      [] OTHER -> "none"

\* C14: the calls of one pipeline come in the order bundle check, source-map
\* check, rename, transform, compose; each is made after the one before it
\* has returned (without an error), and the call being waited for is the
\* next of that order.
C14_Theorem ==
    \A a \in Matching :
        /\ Len(ops[a]) <= Len(StepOrder(a))
        /\ \A i \in 1..Len(ops[a]) : ops[a][i].op = StepOrder(a)[i]
        /\ \A i \in 1..(Len(ops[a]) - 1) : ops[a][i].result \/ i = 2
        /\ PendingCall(a) # "none" =>
              /\ Len(ops[a]) < Len(StepOrder(a))
              /\ PendingCall(a) = StepOrder(a)[Len(ops[a]) + 1]
              /\ (pc[a] = "bundleExists") <=> (ops[a] = <<>>)

\* One pipeline has made all five calls while another still waits for its
\* first.
C14_Witness ==
    \E a, b \in Matching :
        /\ pc[a] = "done"
        /\ Len(ops[a]) = 5
        /\ pc[b] = "bundleExists"
        /\ ops[b] = <<>>

\* The emitted assets whose name the configured rule rejects.
Rejected ==
    {a \in assets :
        /\ config.test = "bundleSuffix"
        /\ a[Len(a)][Len(a[Len(a)])] \notin {".bundle", ".jsbundle"}}

\* Path p holds what it held before the run.
SameFile(p) ==
    /\ p \in DOMAIN fs <=> p \in DOMAIN fs0
    /\ p \in DOMAIN fs => fs[p] = fs0[p]

RunOver ==
    /\ aggregate \in {"fulfilled", "rejected"}
    /\ \A a \in assets : pc[a] \in Settled \cup {"idle"}

\* C15 as stated: an asset the rule rejects is never processed, and after
\* the run its bundle path and its source-map path hold what they held
\* before.
C15_Original ==
    \A a \in Rejected :
        /\ pc[a] = "idle"
        /\ ops[a] = <<>>
        /\ RunOver => SameFile(BundlePathOf(a)) /\ SameFile(MapPathOf(a))

\* C15 amended: an asset the rule rejects is never processed, and its
\* bundle path and its source-map path hold what they held before the run
\* unless the path is also a resolved path of a matching asset.
C15_Theorem ==
    \A a \in Rejected :
        /\ pc[a] = "idle"
        /\ ops[a] = <<>>
        /\ bundleOutputPath[a] = NoPath
        /\ phase = "emitted" =>
              \A p \in {BundlePathOf(a), MapPathOf(a)} \ PathsBeside(a) : SameFile(p)

C15_Witness ==
    \E a \in Rejected :
        /\ RunOver
        /\ \E b \in Matching : pc[b] = "done" /\ Did(b, "compose")
        /\ BundlePathOf(a) \in DOMAIN fs
        /\ BundlePathOf(a) \notin PathsBeside(a)
        /\ SameFile(BundlePathOf(a))

\* C16: every asset's packager-map path is basename(bundlePath) +
\* ".packager.map" in the directory of the configured source-map output
\* path, or in the bundle's directory when none is configured, whatever the
\* platform and the role; the bundle path of a secondary asset on ios is
\* under the configured assets path, or under the bundle's directory when
\* none is configured.
C16_Theorem ==
    \A a \in Matching :
        packagerMapPath[a] # NoPath =>
            LET b == bundleOutputPath[a]
                bundleDir == SubSeq(config.bundleFilename, 1,
                                    Len(config.bundleFilename) - 1)
                mapDir == IF config.sourceMapFilename = NoPath THEN bundleDir
                          ELSE SubSeq(config.sourceMapFilename, 1,
                                      Len(config.sourceMapFilename) - 1)
                assetsDir == IF config.assetsPath = NoPath THEN bundleDir
                             ELSE config.assetsPath
            IN  /\ packagerMapPath[a] = mapDir \o <<b[Len(b)] \o <<".packager", ".map">>>>
                /\ (a # IndexBundle /\ config.platform = "ios") => b = assetsDir \o a

C16_Witness ==
    \E a \in Matching :
        /\ a # IndexBundle
        /\ config.platform = "ios"
        /\ Did(a, "rename")
        /\ sourcemapOutputPath[a] = << <<"res">>, <<"x", ".bundle", ".map">> >>
        /\ packagerMapPath[a] = << <<"maps">>, <<"x", ".bundle", ".packager", ".map">> >>
        /\ packagerMapPath[a] \in DOMAIN fs

\* No call of the pipeline of a was made twice.
NoRetry(a) ==
    \A i, j \in 1..Len(ops[a]) :
        (i # j) => <<ops[a][i].op, ops[a][i].path>> # <<ops[a][j].op, ops[a][j].path>>

\* C17: with every awaited call returning, the pipelines that are under way
\* all reach skipped, done or failed; skipped is the outcome exactly of a
\* missing bundle, a settled pipeline makes no further call and keeps its
\* outcome, and no call is made twice.
C17_Theorem ==
    /\ (\E a \in Matching : Started(a)) ~> (\A a \in Matching : pc[a] \in Settled)
    /\ [](\A a \in Matching :
            /\ NoRetry(a)
            /\ (pc[a] = "skipped") <=> BundleMissing(a))
    /\ [][\A a \in Matching :
              pc[a] \in Settled => (pc'[a] = pc[a] /\ ops'[a] = ops[a])]_vars

C17_Witness ==
    /\ \E a \in Matching : pc[a] = "skipped"
    /\ \E a \in Matching : pc[a] = "done" /\ Len(ops[a]) = 5
    /\ RunOver

\* C18: when the compiler fails for an asset whose source map was renamed,
\* the pipeline makes no further call and no compose; if no other matching
\* asset resolves to its map paths, its source-map path stays empty and the
\* bundler map stays at the packager-map path.
C18_Theorem ==
    \A a \in Matching :
        (CompilerFailed(a) /\ Did(a, "rename")) =>
            /\ Len(ops[a]) = 4
            /\ ~Called(a, "compose")
            /\ hermesAsset[a] = NoMap
            /\ MapsUnshared(a) =>
                  /\ sourcemapOutputPath[a] \notin DOMAIN fs
                  /\ sourcemapOutputPath[a] \in DOMAIN fs0
                  /\ packagerMapPath[a] \in DOMAIN fs
                  /\ fs[packagerMapPath[a]] = fs0[sourcemapOutputPath[a]]

C18_Witness ==
    \E a, b \in Matching :
        /\ CompilerFailed(a) /\ Did(a, "rename") /\ MapsUnshared(a)
        /\ packagerMapPath[a] \in DOMAIN fs
        /\ pc[b] = "done" /\ Did(b, "compose")
        /\ aggregate = "rejected"

Mutating == {"rename", "transform", "compose"}

\* C19: the first call of a pipeline is the existence check of its bundle
\* path; the source-map check and every call that can change a file come
\* only after that check has returned true; and as long as no pipeline has
\* made such a call the files are those of before the run.
C19_Theorem ==
    /\ \A a \in Matching :
          /\ ops[a] # <<>> =>
                /\ ops[a][1].op = "fileExists"
                /\ ops[a][1].path = bundleOutputPath[a]
          /\ \A i \in 1..Len(ops[a]) :
                (ops[a][i].op \in Mutating \/ ops[a][i].path = sourcemapOutputPath[a])
                    => (i > 1 /\ ops[a][1].result)
          /\ pc[a] \in {"useSourceMaps", "rename", "transform", "compose"} =>
                (ops[a] # <<>> /\ ops[a][1].result)
    /\ (\A a \in assets : \A i \in 1..Len(ops[a]) : ops[a][i].op \notin Mutating)
          => fs = fs0

C19_Witness ==
    \E a, b \in Matching :
        /\ BundleMissing(a) /\ Len(ops[a]) = 1
        /\ Len(ops[b]) = 3
        /\ ops[b][1].result /\ ~ops[b][2].result
        /\ ops[b][3].op = "transform" /\ ops[b][3].result
        /\ fs # fs0

====
